---------------------------- MODULE Spec2Model ----------------------------
(***************************************************************************)
(* Model of the Bref function-layer bootstrap                              *)
(* (runtime/layers/function/bootstrap.php): the S3 request signer, the     *)
(* vendor archive download / install branch, handler resolution and the   *)
(* bounded event loop.                                                     *)
(*                                                                         *)
(* PHP strings are modelled as sequences of byte values (ASCII codes), so  *)
(* that encoding, sorting and matching are computed and not assumed.       *)
(***************************************************************************)
EXTENDS Integers, Sequences, FiniteSets, TLC

(***************************************************************************)
(* Byte strings                                                            *)
(***************************************************************************)

\* "/"
SLASH == 47

\* "%"
PERCENT == 37

\* "&"
AMP == 38

\* "="
EQUALS == 61

\* "0123456789ABCDEF", the digits rawurlencode() writes
HexDigits == <<48, 49, 50, 51, 52, 53, 54, 55, 56, 57, 65, 66, 67, 68, 69, 70>>

\* s starts with p
StartsWith(s, p) ==
    /\ Len(p) <= Len(s)
    /\ SubSeq(s, 1, Len(p)) = p

\* s without its first n bytes
Drop(s, n) == SubSeq(s, n + 1, Len(s))

\* byte-wise string order, as strcmp(a, b) < 0
RECURSIVE BytesLess(_, _)
BytesLess(a, b) ==
    IF b = <<>> THEN FALSE
    ELSE IF a = <<>> THEN TRUE
    ELSE IF Head(a) # Head(b) THEN Head(a) < Head(b)
    ELSE BytesLess(Tail(a), Tail(b))

\* the bytes rawurlencode() leaves alone: A-Z a-z 0-9 - _ . ~
Unreserved(c) ==
    \/ (65 <= c /\ c <= 90)
    \/ (97 <= c /\ c <= 122)
    \/ (48 <= c /\ c <= 57)
    \/ c \in {45, 95, 46, 126}

\* rawurlencode($s): RFC 3986 percent-encoding of every other byte
RECURSIVE rawurlencode(_)
rawurlencode(s) ==
    IF s = <<>> THEN <<>>
    ELSE LET c == Head(s)
         IN  (IF Unreserved(c) THEN <<c>>
              ELSE <<PERCENT, HexDigits[(c \div 16) + 1], HexDigits[(c % 16) + 1]>>)
             \o rawurlencode(Tail(s))

\* str_replace($search, $replace, $subject): every occurrence, left to right
RECURSIVE str_replace(_, _, _)
str_replace(search, replace, subject) ==
    IF subject = <<>> THEN <<>>
    ELSE IF StartsWith(subject, search)
         THEN replace \o str_replace(search, replace, Drop(subject, Len(search)))
         ELSE <<Head(subject)>> \o str_replace(search, replace, Tail(subject))

\* the bytes trim() strips: space, \t, \n, \r, \0, \x0B
Whitespace == {32, 9, 10, 13, 0, 11}

RECURSIVE ltrim(_)
ltrim(s) ==
    IF s # <<>> /\ Head(s) \in Whitespace THEN ltrim(Tail(s)) ELSE s

RECURSIVE rtrim(_)
rtrim(s) ==
    IF s # <<>> /\ s[Len(s)] \in Whitespace THEN rtrim(SubSeq(s, 1, Len(s) - 1)) ELSE s

\* trim($s)
trim(s) == rtrim(ltrim(s))

\* the decimal digits of n >= 0, as (string)$n
RECURSIVE Decimal(_)
Decimal(n) ==
    IF n < 10 THEN <<48 + n>> ELSE Decimal(n \div 10) \o <<48 + (n % 10)>>

\* (string)$n for any integer
IntToString(n) == IF n < 0 THEN <<45>> \o Decimal(0 - n) ELSE Decimal(n)

\* n written with at least w digits, zero padded
RECURSIVE ZeroPad(_, _)
ZeroPad(s, w) == IF Len(s) >= w THEN s ELSE ZeroPad(<<48>> \o s, w)

\* the pieces of s between occurrences of the byte sep
RECURSIVE SplitOn(_, _)
SplitOn(s, sep) ==
    IF \A i \in 1..Len(s) : s[i] # sep THEN <<s>>
    ELSE LET i == CHOOSE j \in 1..Len(s) :
                      s[j] = sep /\ \A k \in 1..(j - 1) : s[k] # sep
         IN  <<SubSeq(s, 1, i - 1)>> \o SplitOn(Drop(s, i), sep)

\* a value of getenv(): the string, or false when the variable is not set
EnvStr(s) == [set |-> TRUE, val |-> s]

EnvUnset == [set |-> FALSE, val |-> <<>>]

\* PHP's conversion to bool of a getenv() result: false, "" and "0" are falsy
Truthy(v) == v.set /\ v.val # <<>> /\ v.val # <<48>>

(***************************************************************************)
(* gmdate('Ymd', $t)                                                       *)
(***************************************************************************)

SecondsPerDay == 86400

\* the civil date (year, month, day) of a day number counted from 1970-01-01
CivilFromDays(days) ==
    LET z   == days + 719468
        era == z \div 146097
        doe == z - era * 146097
        yoe == (doe - (doe \div 1460) + (doe \div 36524) - (doe \div 146096)) \div 365
        doy == doe - (365 * yoe + (yoe \div 4) - (yoe \div 100))
        mp  == (5 * doy + 2) \div 153
        d   == doy - ((153 * mp + 2) \div 5) + 1
        m   == IF mp < 10 THEN mp + 3 ELSE mp - 9
        y   == yoe + era * 400 + (IF m <= 2 THEN 1 ELSE 0)
    IN  [year |-> y, month |-> m, day |-> d]

\* gmdate('Ymd', $t): eight digits YYYYMMDD of the UTC day holding $t
gmdate_Ymd(t) ==
    LET c == CivilFromDays(t \div SecondsPerDay)
    IN  ZeroPad(Decimal(c.year), 4) \o ZeroPad(Decimal(c.month), 2)
            \o ZeroPad(Decimal(c.day), 2)

(***************************************************************************)
(* hash() and hash_hmac(): uninterpreted, injective in their arguments     *)
(***************************************************************************)

\* hash('sha256', $data)
sha256(data) == [sha256 |-> data]

\* hash_hmac('sha256', $data, $key)
hash_hmac(data, key) == [hmac |-> data, key |-> key]

(***************************************************************************)
(* Request signer: AWS_S3_PresignDownload                                  *)
(***************************************************************************)

\* 'X-Amz-Algorithm'
K_Algorithm == <<88, 45, 65, 109, 122, 45, 65, 108, 103, 111, 114, 105, 116, 104, 109>>

\* 'X-Amz-Credential'
K_Credential == <<88, 45, 65, 109, 122, 45, 67, 114, 101, 100, 101, 110, 116, 105, 97, 108>>

\* 'X-Amz-Date'
K_Date == <<88, 45, 65, 109, 122, 45, 68, 97, 116, 101>>

\* 'X-Amz-SignedHeaders'
K_SignedHeaders ==
    <<88, 45, 65, 109, 122, 45, 83, 105, 103, 110, 101, 100, 72, 101, 97, 100, 101, 114, 115>>

\* 'X-Amz-Security-Token'
K_SecurityToken ==
    <<88, 45, 65, 109, 122, 45, 83, 101, 99, 117, 114, 105, 116, 121, 45, 84, 111, 107, 101, 110>>

\* 'X-Amz-Expires'
K_Expires == <<88, 45, 65, 109, 122, 45, 69, 120, 112, 105, 114, 101, 115>>

\* 'X-Amz-Signature'
K_Signature == <<88, 45, 65, 109, 122, 45, 83, 105, 103, 110, 97, 116, 117, 114, 101>>

\* 'AWS4-HMAC-SHA256'
S_Algorithm == <<65, 87, 83, 52, 45, 72, 77, 65, 67, 45, 83, 72, 65, 50, 53, 54>>

\* 'host'
S_host == <<104, 111, 115, 116>>

\* 'us-east-1'
S_us_east_1 == <<117, 115, 45, 101, 97, 115, 116, 45, 49>>

\* 'eu-west-1'
S_eu_west_1 == <<101, 117, 45, 119, 101, 115, 116, 45, 49>>

\* 'https://'
S_https == <<104, 116, 116, 112, 115, 58, 47, 47>>

\* '&X-Amz-Signature='
S_SignatureParam == <<AMP>> \o K_Signature \o <<EQUALS>>

\* the default of the parameter $expires
DefaultExpires == 86400

\* Hostname without the us-east-1 case
HostnameAlwaysRegional(BucketName, AWSRegion) ==
    trim(BucketName \o <<46, 115, 51, 45>> \o AWSRegion
             \o <<46, 97, 109, 97, 122, 111, 110, 97, 119, 115, 46, 99, 111, 109>>)

\* $hostname: the bucket's endpoint, without a regional suffix in us-east-1
Hostname(BucketName, AWSRegion) ==
    IF AWSRegion = S_us_east_1
    THEN trim(BucketName \o <<46, 115, 51, 46, 97, 109, 97, 122, 111, 110, 97, 119, 115, 46, 99, 111, 109>>)
    ELSE trim(BucketName \o <<46, 115, 51, 45>> \o AWSRegion
                  \o <<46, 97, 109, 97, 122, 111, 110, 97, 119, 115, 46, 99, 111, 109>>)

\* $date_text . "/" . $AWSRegion . "/s3/aws4_request"
Scope(date_text, AWSRegion) ==
    date_text \o <<SLASH>> \o AWSRegion
        \o <<47, 115, 51, 47, 97, 119, 115, 52, 95, 114, 101, 113, 117, 101, 115, 116>>

\* the array literal $x_amz_params, in insertion order; the session token entry
\* is part of the literal whatever the value of $AWSSessionToken
BaseParams(AWSAccessKeyId, scope, time_text, AWSSessionToken) ==
    << [key |-> K_Algorithm,     value |-> EnvStr(S_Algorithm)],
       [key |-> K_Credential,    value |-> EnvStr(AWSAccessKeyId \o <<SLASH>> \o scope)],
       [key |-> K_Date,          value |-> EnvStr(time_text)],
       [key |-> K_SignedHeaders, value |-> EnvStr(S_host)],
       [key |-> K_SecurityToken, value |-> AWSSessionToken] >>

\* WithExpires without its test of $expires
WithExpiresUnguarded(params, expires) ==
    Append(params, [key |-> K_Expires, value |-> EnvStr(IntToString(expires))])

\* if ($expires > 0) $x_amz_params['X-Amz-Expires'] = (string)$expires;
WithExpires(params, expires) ==
    IF expires > 0
    THEN Append(params, [key |-> K_Expires, value |-> EnvStr(IntToString(expires))])
    ELSE params

\* params with entry e put before the first entry whose key is greater
RECURSIVE InsertByKey(_, _)
InsertByKey(sorted, e) ==
    IF sorted = <<>> THEN <<e>>
    ELSE IF BytesLess(e.key, Head(sorted).key) THEN <<e>> \o sorted
    ELSE <<Head(sorted)>> \o InsertByKey(Tail(sorted), e)

\* ksort left out: the entries stay in insertion order
ksort_skipped(params) == params

\* ksort($x_amz_params): the entries by ascending key, compared as strings
RECURSIVE ksort(_)
ksort(params) ==
    IF params = <<>> THEN <<>>
    ELSE InsertByKey(ksort(SubSeq(params, 1, Len(params) - 1)), params[Len(params)])

\* the foreach building $query_string, each pair followed by "&"
RECURSIVE JoinParams(_)
JoinParams(params) ==
    IF params = <<>> THEN <<>>
    ELSE rawurlencode(Head(params).key) \o <<EQUALS>>
             \o rawurlencode(Head(params).value.val) \o <<AMP>>
             \o JoinParams(Tail(params))

\* substr($query_string, 0, -1) of the joined pairs
QueryString(params) ==
    LET joined == JoinParams(params)
    IN  SubSeq(joined, 1, Len(joined) - 1)

\* rawurlencode() is called under strict_types: a value that is not a string
\* (getenv() gave false) raises a TypeError
ThrowsTypeError(params) == \E i \in 1..Len(params) : ~params[i].value.set

\* the result of a call that raised: no URL
NoUrl == [threw |-> TRUE, hostname |-> <<>>, encoded_uri |-> <<>>,
          query_string |-> <<>>, time_text |-> <<>>, scope |-> <<>>,
          canonical_request |-> <<>>, url |-> <<>>, signature |-> <<>>]

\* AWS_S3_PresignDownload(...), called when time() = now.  url is the returned
\* string up to and including "&X-Amz-Signature=", signature the hex digest
\* that follows it.
AWS_S3_PresignDownload(AWSAccessKeyId, AWSSecretAccessKey, AWSSessionToken, BucketName, AWSRegion, canonical_uri, expires, now) ==
    LET encoded_uri == str_replace(<<PERCENT, 50, 70>>, <<SLASH>>, rawurlencode(canonical_uri))
        hostname == Hostname(BucketName, AWSRegion)
        header_string == S_host \o <<58>> \o hostname \o <<10>>
        signed_headers_string == S_host
        date_text == gmdate_Ymd(now)
        time_text == date_text \o <<84, 48, 48, 48, 48, 48, 48, 90>>
        scope == Scope(date_text, AWSRegion)
        x_amz_params ==
            ksort(WithExpires(BaseParams(AWSAccessKeyId, scope, time_text, AWSSessionToken),
                              expires))
        query_string == QueryString(x_amz_params)
        canonical_request ==
            <<71, 69, 84, 10>> \o encoded_uri \o <<10>> \o query_string \o <<10>>
                \o header_string \o <<10>> \o signed_headers_string
                \o <<10, 85, 78, 83, 73, 71, 78, 69, 68, 45, 80, 65, 89, 76, 79, 65, 68>>
        string_to_sign ==
            [text |-> S_Algorithm \o <<10>> \o time_text \o <<10>> \o scope \o <<10>>,
             digest |-> sha256(canonical_request)]
        signing_key ==
            hash_hmac(<<97, 119, 115, 52, 95, 114, 101, 113, 117, 101, 115, 116>>,
                hash_hmac(<<115, 51>>,
                    hash_hmac(AWSRegion,
                        hash_hmac(date_text, <<65, 87, 83, 52>> \o AWSSecretAccessKey))))
        signature == hash_hmac(string_to_sign, signing_key)
    IN  IF ThrowsTypeError(x_amz_params) THEN NoUrl
        ELSE [threw |-> FALSE, hostname |-> hostname, encoded_uri |-> encoded_uri,
              query_string |-> query_string, time_text |-> time_text, scope |-> scope,
              canonical_request |-> canonical_request,
              url |-> S_https \o hostname \o encoded_uri \o <<63>> \o query_string
                          \o S_SignatureParam,
              signature |-> signature]

\* the query string of a URL: what follows its first "?"
UrlQuery(u) == Drop(u, Len(Head(SplitOn(u, 63))) + 1)

\* the name=value pairs of a URL's query string
UrlPairs(u) ==
    LET pairs == SplitOn(UrlQuery(u), AMP)
    IN  [i \in 1..Len(pairs) |-> SplitOn(pairs[i], EQUALS)]

\* the query parameter names of a URL, in the order they appear
UrlParamNames(u) == [i \in 1..Len(UrlPairs(u)) |-> Head(UrlPairs(u)[i])]

\* the URL has a query parameter of this name
HasParam(u, name) == \E i \in 1..Len(UrlPairs(u)) : Head(UrlPairs(u)[i]) = name

\* the values, as written in the URL, of the query parameters of this name
ParamValues(u, name) ==
    {UrlPairs(u)[i][2] : i \in {j \in 1..Len(UrlPairs(u)) : Head(UrlPairs(u)[j]) = name}}

(***************************************************************************)
(* Resource locator: the preg_match() of downloadVendorArchive             *)
(***************************************************************************)

\* 's3://'
S_s3_scheme == <<115, 51, 58, 47, 47>>

\* the longest prefix of s holding no byte of the set stop
RECURSIVE TakeUntil(_, _)
TakeUntil(s, stop) ==
    IF s = <<>> \/ Head(s) \in stop THEN <<>>
    ELSE <<Head(s)>> \o TakeUntil(Tail(s), stop)

\* the pattern tried at the start of s: "s3://", one or more bytes that are
\* not "/", a "/", then the rest of the line
MatchAt(s) ==
    LET rest == Drop(s, Len(S_s3_scheme))
        bucket == TakeUntil(rest, {SLASH})
        after == Drop(rest, Len(bucket))
    IN  IF StartsWith(s, S_s3_scheme) /\ bucket # <<>> /\ after # <<>>
        THEN [matched |-> TRUE, bucket |-> bucket,
              key |-> TakeUntil(Tail(after), {10})]
        ELSE [matched |-> FALSE, bucket |-> <<>>, key |-> <<>>]

\* preg_match(): the pattern is not anchored, the leftmost match wins;
\* $matches stays empty when there is none
RECURSIVE preg_match(_)
preg_match(s) ==
    IF s = <<>> THEN [matched |-> FALSE, bucket |-> <<>>, key |-> <<>>]
    ELSE IF MatchAt(s).matched THEN MatchAt(s)
    ELSE preg_match(Tail(s))

(***************************************************************************)
(* Inputs                                                                  *)
(***************************************************************************)

\* the largest BREF_LOOP_MAX tried
MaxLoopMax == 2

\* the number of process starts followed in one container
MaxStarts == 2

\* values tried for the locator: 's3://b/k', 'b/k' (no scheme) and '0'
Locators ==
    { <<115, 51, 58, 47, 47, 98, 47, 107>>,
      <<98, 47, 107>>,
      <<48>> }

\* values of BREF_DOWNLOAD_VENDOR
DownloadVendorValues == {EnvUnset} \cup {EnvStr(l) : l \in Locators}

\* values of BREF_AUTOLOAD_PATH: not set, or '/a'
AutoloadPathValues == {EnvUnset, EnvStr(<<47, 97>>)}

\* values of BREF_LOOP_MAX: not set, or a decimal number
LoopMaxValues == {EnvUnset} \cup {EnvStr(IntToString(n)) : n \in 0..MaxLoopMax}

\* values of AWS_SESSION_TOKEN: not set, empty, or 't+k'
SessionTokenValues == {EnvUnset, EnvStr(<<>>), EnvStr(<<116, 43, 107>>)}

\* values of AWS_REGION
Regions == {S_us_east_1, S_eu_west_1}

\* AWS_ACCESS_KEY_ID 'AK'
AccessKeyId == <<65, 75>>

\* AWS_SECRET_ACCESS_KEY 'SK'
SecretAccessKey == <<83, 75>>

\* values of time(): 2026-11-01 00:00:00, 01:00:00, 23:59:59 and the next midnight
Instants == {1793491200, 1793494800, 1793577599, 1793577600}

\* the integer a numeric string stands for in a comparison with an integer
RECURSIVE ParseInt(_)
ParseInt(s) ==
    IF s = <<>> THEN 0 ELSE 10 * ParseInt(SubSeq(s, 1, Len(s) - 1)) + (s[Len(s)] - 48)

(***************************************************************************)
(* State                                                                   *)
(***************************************************************************)

\* the files of the vendor archive: /tmp/vendor/autoload.php (the loader
\* manifest), /tmp/vendor/composer/autoload_static.php, and the packages
AUTOLOAD == "autoload.php"

STATIC_LOADER == "composer/autoload_static.php"

PACKAGES == "packages"

ArchiveEntries == {AUTOLOAD, STATIC_LOADER, PACKAGES}

VARIABLES
    env,            \* the process environment, the same at every start in the container
    fs,             \* /tmp: vendorDir, files under /tmp/vendor, patched, zip
    starts,         \* process starts so far in this container
    installDone,    \* some process of the container extracted and patched a whole tree
    pc,             \* position of the running process in bootstrap.php
    markerAtStart,  \* /tmp/vendor/autoload.php existed when the process started
    branchesRun,    \* the dependency branches this process entered
    sigArgs,        \* arguments of the signer call (locals of the caller)
    url,            \* $url, the signer's result
    httpRequests,   \* curl_exec() calls of this process
    zipFileOps,     \* creations and deletions of /tmp/vendor.zip by this process
    pending,        \* archive entries extractTo() has not written yet
    extractCalls,   \* extractTo() calls of this process
    openFailed,     \* ZipArchive::open() failed in this process
    loaded,         \* the autoload file this process has required
    handler,        \* $handler
    resolveThrew,   \* $container->get() threw in this process
    failInits,      \* failInitialization() reports of this process
    loopMax,        \* $loopMax
    loops,          \* $loops
    processCalls,   \* processNextEvent() calls of this process
    outcomes,       \* how each invocation of this process ended, in order
    exitStatus,     \* exit status once the process has ended, else -1
    given,          \* the deploy plugin's inputs: serverless.yml and the provider's answers
    service,        \* this.serverless.service, as the plugin's hooks leave it
    plugin,         \* the plugin object's own fields
    s3              \* the deployment bucket and the requests made to it

container == <<env, fs, starts, installDone>>

download == <<sigArgs, url, httpRequests, zipFileOps, pending, extractCalls, openFailed>>

runtime == <<loaded, handler, resolveThrew, failInits, loopMax, loops, processCalls, outcomes>>

deploy == <<given, service, plugin, s3>>

vars == <<env, fs, starts, installDone, pc, markerAtStart, branchesRun, sigArgs, url,
          httpRequests, zipFileOps, pending, extractCalls, openFailed, loaded, handler,
          resolveThrew, failInits, loopMax, loops, processCalls, outcomes, exitStatus,
          given, service, plugin, s3>>

\* file_exists('/tmp/vendor/autoload.php')
MarkerExists(f) == AUTOLOAD \in f.files

\* no signer call in progress
NoArgs == [AWSAccessKeyId |-> <<>>, AWSSecretAccessKey |-> <<>>,
           AWSSessionToken |-> EnvUnset, BucketName |-> <<>>, AWSRegion |-> <<>>,
           canonical_uri |-> <<>>, expires |-> 0, now |-> 0, matched |-> FALSE]

\* no $url
NoCall == [NoUrl EXCEPT !.threw = FALSE]

\* an empty /tmp
EmptyTmp == [vendorDir |-> FALSE, files |-> {}, patched |-> FALSE, zip |-> "absent"]

\* a JavaScript value that is a string or undefined
JsString(b) == [def |-> TRUE, val |-> b]

undefined == [def |-> FALSE, val |-> <<>>]

\* 'undefined'
S_undefined == <<117, 110, 100, 101, 102, 105, 110, 101, 100>>

\* the string a value becomes when it is concatenated to a string with +
Concatenated(v) == IF v.def THEN v.val ELSE S_undefined

\* the plugin object after its constructor: none of the four fields is set
NewPlugin ==
    [newVendorZipName |-> undefined, filePath |-> undefined,
     bucketName |-> undefined, deploymentPrefix |-> undefined]

\* a service in which the plugin has nothing to read
NoService ==
    [separateVendor |-> FALSE, exclude |-> <<>>,
     iamRoleStatements |-> [def |-> FALSE, list |-> <<>>],
     BREF_DOWNLOAD_VENDOR |-> [def |-> FALSE, parts |-> <<>>]]

\* no deployment is under way
NoDeploy ==
    /\ given = [service |-> NoService, bucketName |-> <<>>, deploymentPrefix |-> <<>>]
    /\ service = NoService
    /\ plugin = NewPlugin
    /\ s3 = [objects |-> {}, requests |-> <<>>]

\* the state of a process that starts on filesystem f
StartProcess(f) ==
    /\ pc = "select_branch"
    /\ markerAtStart = MarkerExists(f)
    /\ branchesRun = {}
    /\ sigArgs = NoArgs
    /\ url = NoCall
    /\ httpRequests = 0
    /\ zipFileOps = 0
    /\ pending = {}
    /\ extractCalls = 0
    /\ openFailed = FALSE
    /\ loaded = "none"
    /\ handler = "undefined"
    /\ resolveThrew = FALSE
    /\ failInits = 0
    /\ loopMax = 0
    /\ loops = 0
    /\ processCalls = 0
    /\ outcomes = <<>>
    /\ exitStatus = -1

\* a cold container: an empty /tmp and the first process start
Init ==
    /\ env \in [BREF_DOWNLOAD_VENDOR : DownloadVendorValues,
                BREF_AUTOLOAD_PATH : AutoloadPathValues,
                BREF_LOOP_MAX : LoopMaxValues,
                AWS_SESSION_TOKEN : SessionTokenValues,
                AWS_REGION : Regions]
    /\ fs = EmptyTmp
    /\ starts = 1
    /\ installDone = FALSE
    /\ StartProcess(fs)
    /\ NoDeploy

\* the process ends: an uncaught exception or fatal error (status 255), exit()
Terminate(status) ==
    /\ pc' = "terminated"
    /\ exitStatus' = status

(***************************************************************************)
(* Dependency branch selection                                             *)
(***************************************************************************)

\* Branch with the first two tests in the other order
BranchExplicitFirst(e) ==
    IF Truthy(e.BREF_AUTOLOAD_PATH) THEN "explicit"
    ELSE IF Truthy(e.BREF_DOWNLOAD_VENDOR) THEN "download"
    ELSE "default"

\* if (getenv('BREF_DOWNLOAD_VENDOR')) ... elseif (getenv('BREF_AUTOLOAD_PATH')) ... else
Branch(e) ==
    IF Truthy(e.BREF_DOWNLOAD_VENDOR) THEN "download"
    ELSE IF Truthy(e.BREF_AUTOLOAD_PATH) THEN "explicit"
    ELSE "default"

\* the script reaches the if / elseif / else and enters one branch
SelectBranch ==
    /\ pc = "select_branch"
    /\ branchesRun' = branchesRun \cup {Branch(env)}
    /\ pc' = CASE Branch(env) = "download" -> "check_installed"
               [] Branch(env) = "explicit" -> "require_explicit"
               [] OTHER -> "require_default"
    /\ UNCHANGED <<deploy, container, download, runtime, markerAtStart, exitStatus>>

\* NeedsInstall without the test of the marker
NeedsInstallAlways(f) == TRUE

\* ! file_exists('/tmp/vendor') || ! file_exists('/tmp/vendor/autoload.php')
NeedsInstall(f) == ~f.vendorDir \/ ~MarkerExists(f)

\* the install check of the download branch
CheckInstalled ==
    /\ pc = "check_installed"
    /\ pc' = IF NeedsInstall(fs) THEN "download_sign" ELSE "require_vendor"
    /\ UNCHANGED <<deploy, container, download, runtime, markerAtStart, branchesRun, exitStatus>>

(***************************************************************************)
(* downloadVendorArchive                                                   *)
(***************************************************************************)

\* the arguments downloadVendorArchive passes to the signer: with no match
\* $matches[1] and $matches[2] are null, so the bucket is '' and the path '/'
SignerArgs(e, now) ==
    LET m == preg_match(e.BREF_DOWNLOAD_VENDOR.val)
    IN  [AWSAccessKeyId |-> AccessKeyId, AWSSecretAccessKey |-> SecretAccessKey,
         AWSSessionToken |-> e.AWS_SESSION_TOKEN, BucketName |-> m.bucket,
         AWSRegion |-> e.AWS_REGION, canonical_uri |-> <<SLASH>> \o m.key,
         expires |-> DefaultExpires, now |-> now, matched |-> m.matched]

\* the signer applied to a record of arguments
Presign(a) ==
    AWS_S3_PresignDownload(a.AWSAccessKeyId, a.AWSSecretAccessKey, a.AWSSessionToken,
                           a.BucketName, a.AWSRegion, a.canonical_uri, a.expires, a.now)

\* the locator is matched and the URL signed; a TypeError of the signer is not caught
DownloadSign ==
    /\ pc = "download_sign"
    /\ \E now \in Instants :
          /\ sigArgs' = SignerArgs(env, now)
          /\ url' = Presign(SignerArgs(env, now))
    /\ IF url'.threw
       THEN Terminate(255)
       ELSE pc' = "download_open" /\ UNCHANGED exitStatus
    /\ UNCHANGED <<deploy, container, runtime, markerAtStart, branchesRun, httpRequests,
                   zipFileOps, pending, extractCalls, openFailed>>

\* an old /tmp/vendor.zip is unlinked, then fopen($downloadPath, 'w') creates it empty
DownloadOpen ==
    /\ pc = "download_open"
    /\ zipFileOps' = zipFileOps + (IF fs.zip = "absent" THEN 1 ELSE 2)
    /\ fs' = [fs EXCEPT !.zip = "unreadable"]
    /\ pc' = "download_exec"
    /\ UNCHANGED <<deploy, env, starts, installDone, runtime, markerAtStart, branchesRun, sigArgs,
                   url, httpRequests, pending, extractCalls, openFailed, exitStatus>>

\* what the transfer can leave in the file: the archive, or bytes that are no
\* archive (nothing, a truncated body, an error document)
Responses(a) == IF a.matched THEN {"archive", "unreadable"} ELSE {"unreadable"}

\* DownloadExec that fetches once more after a transfer that left no archive
DownloadExecRetrying ==
    /\ pc = "download_exec"
    /\ httpRequests' = httpRequests + 1
    /\ \E body \in Responses(sigArgs) :
          /\ fs' = [fs EXCEPT !.zip = body]
          /\ pc' = IF body = "unreadable" /\ httpRequests = 0
                   THEN "download_open" ELSE "unzip_open"
    /\ UNCHANGED <<deploy, env, starts, installDone, runtime, markerAtStart, branchesRun, sigArgs,
                   url, zipFileOps, pending, extractCalls, openFailed, exitStatus>>

\* curl_exec(): its result is not looked at; the function returns
DownloadExec ==
    /\ pc = "download_exec"
    /\ httpRequests' = httpRequests + 1
    /\ \E body \in Responses(sigArgs) : fs' = [fs EXCEPT !.zip = body]
    /\ sigArgs' = NoArgs
    /\ url' = NoCall
    /\ pc' = "unzip_open"
    /\ UNCHANGED <<deploy, env, starts, installDone, runtime, markerAtStart, branchesRun,
                   zipFileOps, pending, extractCalls, openFailed, exitStatus>>

(***************************************************************************)
(* unzipVendorArchive and the install steps that follow it                 *)
(***************************************************************************)

\* UnzipOpen whose caller does not test $unzipped
UnzipOpenUnchecked ==
    /\ pc = "unzip_open"
    /\ fs' = [fs EXCEPT !.vendorDir = TRUE]
    /\ IF fs.zip = "archive"
       THEN /\ pc' = "extract"
            /\ pending' = ArchiveEntries
            /\ extractCalls' = extractCalls + 1
            /\ UNCHANGED <<openFailed, exitStatus>>
       ELSE /\ openFailed' = TRUE
            /\ pc' = "unlink_zip"
            /\ UNCHANGED <<pending, extractCalls, exitStatus>>
    /\ UNCHANGED <<deploy, env, starts, installDone, runtime, markerAtStart, branchesRun, sigArgs,
                   url, httpRequests, zipFileOps>>

\* $zip->open(), mkdir('/tmp/vendor/'); a failed open returns false and the
\* caller throws 'Unable to unzip vendor archive.'
UnzipOpen ==
    /\ pc = "unzip_open"
    /\ fs' = [fs EXCEPT !.vendorDir = TRUE]
    /\ IF fs.zip = "archive"
       THEN /\ pc' = "extract"
            /\ pending' = ArchiveEntries
            /\ extractCalls' = extractCalls + 1
            /\ UNCHANGED <<openFailed, exitStatus>>
       ELSE /\ openFailed' = TRUE
            /\ Terminate(255)
            /\ UNCHANGED <<pending, extractCalls>>
    /\ UNCHANGED <<deploy, env, starts, installDone, runtime, markerAtStart, branchesRun, sigArgs,
                   url, httpRequests, zipFileOps>>

\* extractTo() writes one more entry; an extracted static loader is as generated
ExtractEntry ==
    /\ pc = "extract"
    /\ \E e \in pending :
          /\ fs' = [fs EXCEPT !.files = @ \cup {e},
                              !.patched = IF e = STATIC_LOADER THEN FALSE ELSE @]
          /\ pending' = pending \ {e}
          /\ pc' = IF pending = {e} THEN "unlink_zip" ELSE "extract"
    /\ UNCHANGED <<deploy, env, starts, installDone, runtime, markerAtStart, branchesRun, sigArgs,
                   url, httpRequests, zipFileOps, extractCalls, openFailed, exitStatus>>

\* extractTo() gives up before the last entry (no space left in /tmp): it
\* returns false, which unzipVendorArchive does not look at
ExtractFail ==
    /\ pc = "extract"
    /\ pending # {}
    /\ pc' = "unlink_zip"
    /\ UNCHANGED <<deploy, container, download, runtime, markerAtStart, branchesRun, exitStatus>>

\* UnlinkZip that leaves the archive file in place
UnlinkZipKeepsFile ==
    /\ pc = "unlink_zip"
    /\ pc' = "patch"
    /\ UNCHANGED <<deploy, container, download, runtime, markerAtStart, branchesRun, exitStatus>>

\* unlink('/tmp/vendor.zip')
UnlinkZip ==
    /\ pc = "unlink_zip"
    /\ fs' = [fs EXCEPT !.zip = "absent"]
    /\ zipFileOps' = zipFileOps + 1
    /\ pc' = "patch"
    /\ UNCHANGED <<deploy, env, starts, installDone, runtime, markerAtStart, branchesRun, sigArgs,
                   url, httpRequests, pending, extractCalls, openFailed, exitStatus>>

\* str_replace() on the static loader and file_put_contents() of the result.
\* With no static loader file_get_contents() gives false: str_replace() then
\* raises a TypeError (PHP 8) or goes on with '' (PHP 7), and nothing is written.
PatchStaticLoader ==
    /\ pc = "patch"
    /\ IF STATIC_LOADER \in fs.files
       THEN /\ fs' = [fs EXCEPT !.patched = TRUE]
            /\ installDone' = (installDone \/ fs.files = ArchiveEntries)
            /\ pc' = "require_vendor"
            /\ UNCHANGED exitStatus
       ELSE /\ UNCHANGED <<fs, installDone>>
            /\ \/ Terminate(255)
               \/ pc' = "require_vendor" /\ UNCHANGED exitStatus
    /\ UNCHANGED <<deploy, env, starts, download, runtime, markerAtStart, branchesRun>>

(***************************************************************************)
(* require of the autoload file                                            *)
(***************************************************************************)

\* require '/tmp/vendor/autoload.php': fatal when the file does not exist
RequireVendor ==
    /\ pc = "require_vendor"
    /\ IF MarkerExists(fs)
       THEN loaded' = "/tmp/vendor/autoload.php" /\ pc' = "resolve" /\ UNCHANGED exitStatus
       ELSE Terminate(255) /\ UNCHANGED loaded
    /\ UNCHANGED <<deploy, container, download, markerAtStart, branchesRun, handler, resolveThrew,
                   failInits, loopMax, loops, processCalls, outcomes>>

\* require getenv('BREF_AUTOLOAD_PATH'): the file is there or the require is fatal
RequireExplicit ==
    /\ pc = "require_explicit"
    /\ \E exists \in BOOLEAN :
          IF exists
          THEN loaded' = "BREF_AUTOLOAD_PATH" /\ pc' = "resolve" /\ UNCHANGED exitStatus
          ELSE Terminate(255) /\ UNCHANGED loaded
    /\ UNCHANGED <<deploy, container, download, markerAtStart, branchesRun, handler, resolveThrew,
                   failInits, loopMax, loops, processCalls, outcomes>>

\* require $appRoot . '/vendor/autoload.php'
RequireDefault ==
    /\ pc = "require_default"
    /\ \E exists \in BOOLEAN :
          IF exists
          THEN loaded' = "/var/task/vendor/autoload.php" /\ pc' = "resolve"
               /\ UNCHANGED exitStatus
          ELSE Terminate(255) /\ UNCHANGED loaded
    /\ UNCHANGED <<deploy, container, download, markerAtStart, branchesRun, handler, resolveThrew,
                   failInits, loopMax, loops, processCalls, outcomes>>

(***************************************************************************)
(* Handler resolution and the event loop                                   *)
(***************************************************************************)

\* LambdaRuntime::failInitialization(): the failure is reported to the
\* runtime API and the process ends
failInitialization ==
    /\ failInits' = failInits + 1
    /\ Terminate(1)

\* how an invocation can end: the handler returned, or it raised an error
Outcomes == {"ok", "error"}

\* LambdaRuntime::processNextEvent(): one event is requested and dispatched to
\* the handler; the outcome, result or error, is reported for that invocation
\* and the call returns
processNextEvent ==
    /\ processCalls' = processCalls + 1
    /\ \E o \in Outcomes : outcomes' = Append(outcomes, o)

\* ResolveHandler without the try / catch: the exception ends the process
ResolveHandlerUncaught ==
    /\ pc = "resolve"
    /\ \E throws \in BOOLEAN :
          /\ resolveThrew' = throws
          /\ IF throws
             THEN Terminate(255) /\ UNCHANGED <<handler, failInits>>
             ELSE /\ handler' = "resolved"
                  /\ pc' = "loop_init"
                  /\ UNCHANGED <<failInits, exitStatus>>
    /\ UNCHANGED <<deploy, container, download, markerAtStart, branchesRun, loaded, loopMax, loops,
                   processCalls, outcomes>>

\* try { $handler = $container->get(getenv('_HANDLER')); } catch (Throwable $e) { ... }
ResolveHandler ==
    /\ pc = "resolve"
    /\ \E throws \in BOOLEAN :
          /\ resolveThrew' = throws
          /\ IF throws
             THEN failInitialization /\ UNCHANGED handler
             ELSE /\ handler' = "resolved"
                  /\ pc' = "loop_init"
                  /\ UNCHANGED <<failInits, exitStatus>>
    /\ UNCHANGED <<deploy, container, download, markerAtStart, branchesRun, loaded, loopMax, loops,
                   processCalls, outcomes>>

\* getenv('BREF_LOOP_MAX') ?: 1
LoopMax(e) ==
    IF Truthy(e.BREF_LOOP_MAX) THEN ParseInt(e.BREF_LOOP_MAX.val) ELSE 1

\* $loopMax = getenv('BREF_LOOP_MAX') ?: 1; $loops = 0;
LoopInit ==
    /\ pc = "loop_init"
    /\ loopMax' = LoopMax(env)
    /\ loops' = 0
    /\ pc' = "loop"
    /\ UNCHANGED <<deploy, container, download, markerAtStart, branchesRun, loaded, handler,
                   resolveThrew, failInits, processCalls, outcomes, exitStatus>>

\* if (++$loops > $loopMax) exit(0);
LoopExit ==
    /\ pc = "loop"
    /\ loops + 1 > loopMax
    /\ loops' = loops + 1
    /\ Terminate(0)
    /\ UNCHANGED <<deploy, container, download, markerAtStart, branchesRun, loaded, handler,
                   resolveThrew, failInits, loopMax, processCalls, outcomes>>

\* LoopProcess that leaves the loop when the invocation ended in an error
LoopProcessStopsOnError ==
    /\ pc = "loop"
    /\ ~(loops + 1 > loopMax)
    /\ loops' = loops + 1
    /\ processNextEvent
    /\ IF outcomes'[Len(outcomes')] = "error"
       THEN Terminate(255)
       ELSE UNCHANGED <<pc, exitStatus>>
    /\ UNCHANGED <<deploy, container, download, markerAtStart, branchesRun, loaded, handler,
                   resolveThrew, failInits, loopMax>>

\* the test fails: $lambdaRuntime->processNextEvent($handler), and round again
LoopProcess ==
    /\ pc = "loop"
    /\ ~(loops + 1 > loopMax)
    /\ loops' = loops + 1
    /\ processNextEvent
    /\ UNCHANGED <<deploy, container, download, markerAtStart, branchesRun, loaded, handler,
                   resolveThrew, failInits, loopMax, pc, exitStatus>>

(***************************************************************************)
(* The container                                                           *)
(***************************************************************************)

\* the platform kills the running process (init or invocation timeout)
Kill ==
    /\ pc # "terminated"
    /\ Terminate(137)
    /\ UNCHANGED <<deploy, container, download, runtime, markerAtStart, branchesRun>>

\* the next process starts in the same container, on the /tmp left behind
Restart ==
    /\ pc = "terminated"
    /\ starts < MaxStarts
    /\ starts' = starts + 1
    /\ pc' = "select_branch"
    /\ markerAtStart' = MarkerExists(fs)
    /\ branchesRun' = {}
    /\ sigArgs' = NoArgs
    /\ url' = NoCall
    /\ httpRequests' = 0
    /\ zipFileOps' = 0
    /\ pending' = {}
    /\ extractCalls' = 0
    /\ openFailed' = FALSE
    /\ loaded' = "none"
    /\ handler' = "undefined"
    /\ resolveThrew' = FALSE
    /\ failInits' = 0
    /\ loopMax' = 0
    /\ loops' = 0
    /\ processCalls' = 0
    /\ outcomes' = <<>>
    /\ exitStatus' = -1
    /\ UNCHANGED <<deploy, env, fs, installDone>>

Next ==
    \/ SelectBranch
    \/ CheckInstalled
    \/ DownloadSign
    \/ DownloadOpen
    \/ DownloadExec
    \/ UnzipOpen
    \/ ExtractEntry
    \/ ExtractFail
    \/ UnlinkZip
    \/ PatchStaticLoader
    \/ RequireVendor
    \/ RequireExplicit
    \/ RequireDefault
    \/ ResolveHandler
    \/ LoopInit
    \/ LoopExit
    \/ LoopProcess
    \/ Kill
    \/ Restart

Spec == Init /\ [][Next]_vars

(***************************************************************************)
(* The request signer on its own: one call on arguments drawn from         *)
(* SignerInputs                                                            *)
(***************************************************************************)

\* validity windows tried: negative, zero, one second, an hour, the default
ExpiresValues == {-1, 0, 1, 3600, DefaultExpires}

\* resource paths tried: '/k', '/a/k', '/a k'
ResourcePaths == {<<47, 107>>, <<47, 97, 47, 107>>, <<47, 97, 32, 107>>}

\* bucket names tried: 'b'
BucketNames == {<<98>>}

SignerInputs ==
    [AWSAccessKeyId : {AccessKeyId}, AWSSecretAccessKey : {SecretAccessKey},
     AWSSessionToken : SessionTokenValues, BucketName : BucketNames,
     AWSRegion : Regions, canonical_uri : ResourcePaths, expires : ExpiresValues,
     now : Instants, matched : {TRUE}]

SignerInit ==
    /\ env \in [BREF_DOWNLOAD_VENDOR : {EnvUnset}, BREF_AUTOLOAD_PATH : {EnvUnset},
                BREF_LOOP_MAX : {EnvUnset}, AWS_SESSION_TOKEN : {EnvUnset},
                AWS_REGION : {S_us_east_1}]
    /\ fs = EmptyTmp
    /\ starts = 1
    /\ installDone = FALSE
    /\ pc = "signer_call"
    /\ markerAtStart = FALSE
    /\ branchesRun = {}
    /\ sigArgs \in SignerInputs
    /\ url = NoCall
    /\ httpRequests = 0
    /\ zipFileOps = 0
    /\ pending = {}
    /\ extractCalls = 0
    /\ openFailed = FALSE
    /\ loaded = "none"
    /\ handler = "undefined"
    /\ resolveThrew = FALSE
    /\ failInits = 0
    /\ loopMax = 0
    /\ loops = 0
    /\ processCalls = 0
    /\ outcomes = <<>>
    /\ exitStatus = -1
    /\ NoDeploy

\* $url = AWS_S3_PresignDownload(...)
SignerCall ==
    /\ pc = "signer_call"
    /\ url' = Presign(sigArgs)
    /\ pc' = "signer_done"
    /\ UNCHANGED <<deploy, container, runtime, markerAtStart, branchesRun, sigArgs, httpRequests,
                   zipFileOps, pending, extractCalls, openFailed, exitStatus>>

SignerNext == SignerCall

SignerSpec == SignerInit /\ [][SignerNext]_vars

\* the signer has returned a URL
Signed == pc = "signer_done" /\ ~url.threw

(***************************************************************************)
(* The deploy plugin (src/index.js): the hooks of one deployment           *)
(***************************************************************************)

\* '/vendors/'
S_vendors == <<47, 118, 101, 110, 100, 111, 114, 115, 47>>

\* '.zip'
S_zip == <<46, 122, 105, 112>>

\* 'vendor/**'
S_vendor_glob == <<118, 101, 110, 100, 111, 114, 47, 42, 42>>

\* '.serverless/vendor.zip'
S_filePath ==
    <<46, 115, 101, 114, 118, 101, 114, 108, 101, 115, 115, 47, 118, 101, 110, 100, 111, 114, 46, 122, 105, 112>>

\* 'arn:'
S_arn == <<97, 114, 110, 58>>

\* ':s3:::'
S_s3_arn == <<58, 115, 51, 58, 58, 58>>

\* 'aws', the partition of the regions deployed to
S_aws == <<97, 119, 115>>

\* 'serverless', the provider's deployment prefix when none is configured
S_serverless == <<115, 101, 114, 118, 101, 114, 108, 101, 115, 115>>

\* path.replace(/^\/+/g, ''): the leading slashes are dropped
RECURSIVE stripSlashes(_)
stripSlashes(path) ==
    IF path # <<>> /\ Head(path) = SLASH THEN stripSlashes(Tail(path)) ELSE path

\* the elements of an "Fn::Join" list: a literal string, { "Ref": ... }
Lit(str) == [kind |-> "Lit", val |-> str]

RefBucket == [kind |-> "Ref:ServerlessDeploymentBucket", val |-> <<>>]

RefPartition == [kind |-> "Ref:AWS::Partition", val |-> <<>>]

\* { "Fn::Join": ["", parts] } once the stack knows its bucket
RECURSIVE FnJoin(_, _)
FnJoin(parts, bucket) ==
    IF parts = <<>> THEN <<>>
    ELSE (CASE Head(parts).kind = "Lit" -> Head(parts).val
            [] Head(parts) = RefBucket -> bucket
            [] OTHER -> S_aws) \o FnJoin(Tail(parts), bucket)

\* const roleDetails = { Effect, Action, Resource }
roleDetails ==
    [Effect |-> "Allow", Action |-> "s3:GetObject",
     Resource |-> <<Lit(S_arn), RefPartition, Lit(S_s3_arn), RefBucket,
                    Lit(S_vendors \o <<42>>)>>]

\* the value given to environment.BREF_DOWNLOAD_VENDOR
Locator(name) == <<Lit(S_s3_scheme), RefBucket, Lit(S_vendors), Lit(name)>>

\* excludes.indexOf('vendor/**') === -1, then the two appends
Excluded(excludes, name) ==
    Append(IF \E i \in 1..Len(excludes) : excludes[i] = S_vendor_glob
           THEN excludes ELSE Append(excludes, S_vendor_glob), name)

\* iamRoleStatements.indexOf(roleDetails) compares object identity, and
\* roleDetails is a new object: it is never found, so it is always appended
WithRoleDetails(statements) ==
    IF statements.def
    THEN [def |-> TRUE, list |-> Append(statements.list, roleDetails)]
    ELSE [def |-> TRUE, list |-> <<roleDetails>>]

\* this.stripSlashes(this.deploymentPrefix + '/vendors/' + this.newVendorZipName)
UploadKey(p) ==
    stripSlashes(Concatenated(p.deploymentPrefix) \o S_vendors
                     \o Concatenated(p.newVendorZipName))

\* md5 digests of vendor.zip (one hex digit stands for the thirty-two)
Hashes == {<<97>>, <<98>>}

\* deployment prefixes: the default, the empty one, a slash
DeploymentPrefixes == {S_serverless, <<>>, <<SLASH>>}

\* package.exclude as written in serverless.yml
GivenExcludes == {<<>>, <<S_vendor_glob>>}

\* provider.iamRoleStatements as written in serverless.yml
GivenStatements ==
    {[def |-> FALSE, list |-> <<>>], [def |-> TRUE, list |-> <<>>],
     [def |-> TRUE, list |-> <<roleDetails>>]}

\* the services deployed
GivenServices ==
    [separateVendor : BOOLEAN, exclude : GivenExcludes,
     iamRoleStatements : GivenStatements,
     BREF_DOWNLOAD_VENDOR : {[def |-> FALSE, parts |-> <<>>]}]

\* vendor archives an earlier deployment may have left in the bucket
EarlierObjects(prefix) ==
    SUBSET {stripSlashes(prefix \o S_vendors \o h \o S_zip) : h \in Hashes}

\* the bootstrap's variables other than pc: no process is running
bootstrap == <<container, download, runtime, markerAtStart, branchesRun, exitStatus>>

\* `serverless deploy` has loaded the service and constructed the plugin
PluginInit ==
    /\ env \in [BREF_DOWNLOAD_VENDOR : {EnvUnset}, BREF_AUTOLOAD_PATH : {EnvUnset},
                BREF_LOOP_MAX : {EnvUnset}, AWS_SESSION_TOKEN : {EnvUnset},
                AWS_REGION : {S_us_east_1}]
    /\ fs = EmptyTmp
    /\ starts = 1
    /\ installDone = FALSE
    /\ pc = "package:setupProviderConfiguration"
    /\ markerAtStart = FALSE
    /\ branchesRun = {}
    /\ sigArgs = NoArgs
    /\ url = NoCall
    /\ httpRequests = 0
    /\ zipFileOps = 0
    /\ pending = {}
    /\ extractCalls = 0
    /\ openFailed = FALSE
    /\ loaded = "none"
    /\ handler = "undefined"
    /\ resolveThrew = FALSE
    /\ failInits = 0
    /\ loopMax = 0
    /\ loops = 0
    /\ processCalls = 0
    /\ outcomes = <<>>
    /\ exitStatus = -1
    /\ given \in [service : GivenServices, bucketName : BucketNames,
                  deploymentPrefix : DeploymentPrefixes]
    /\ service = given.service
    /\ plugin = NewPlugin
    /\ \E objects \in EarlierObjects(given.deploymentPrefix) :
          s3 = [objects |-> objects, requests |-> <<>>]

\* hook package:setupProviderConfiguration. createZipFile sets this.filePath,
\* then writes and hashes the archive or rejects, which fails the deployment
createVendorZip ==
    /\ pc = "package:setupProviderConfiguration"
    /\ IF ~service.separateVendor
       THEN /\ pc' = "after:aws:deploy:deploy:createStack"
            /\ UNCHANGED <<service, plugin>>
       ELSE \E zipped \in BOOLEAN :
               IF ~zipped
               THEN /\ plugin' = [plugin EXCEPT !.filePath = JsString(S_filePath)]
                    /\ pc' = "failed"
                    /\ UNCHANGED service
               ELSE \E vendorZipHash \in Hashes :
                       /\ plugin' = [plugin EXCEPT
                              !.filePath = JsString(S_filePath),
                              !.newVendorZipName = JsString(vendorZipHash \o S_zip)]
                       /\ service' = [service EXCEPT
                              !.exclude = Excluded(@, vendorZipHash \o S_zip),
                              !.iamRoleStatements = WithRoleDetails(@),
                              !.BREF_DOWNLOAD_VENDOR =
                                  [def |-> TRUE, parts |-> Locator(vendorZipHash \o S_zip)]]
                       /\ pc' = "after:aws:deploy:deploy:createStack"
    /\ UNCHANGED <<bootstrap, given, s3>>

\* a request to S3 through this.provider.request
Request(op, p) == [op |-> op, Bucket |-> p.bucketName, Key |-> UploadKey(p)]

\* hook after:aws:deploy:deploy:createStack: the bucket name and the prefix
\* are fetched and uploadZipToS3 sends its headObject
uploadVendorZip ==
    /\ pc = "after:aws:deploy:deploy:createStack"
    /\ plugin' = [plugin EXCEPT !.bucketName = JsString(given.bucketName),
                                !.deploymentPrefix = JsString(given.deploymentPrefix)]
    /\ s3' = [s3 EXCEPT !.requests = Append(@, Request("headObject", plugin'))]
    /\ pc' = "headObject"
    /\ UNCHANGED <<bootstrap, given, service>>

\* uploadZipToS3 after the headObject: the object is there and the function
\* returns; or the request failed (no such object, or any other error) and
\* the catch goes on to fs.createReadStream(zipFile), which throws for an
\* undefined path, and to the putObject
uploadZipToS3 ==
    /\ pc = "headObject"
    /\ \E found \in (IF UploadKey(plugin) \in s3.objects THEN BOOLEAN ELSE {FALSE}) :
          IF found
          THEN pc' = "done" /\ UNCHANGED s3
          ELSE IF ~plugin.filePath.def
               THEN pc' = "failed" /\ UNCHANGED s3
               ELSE /\ s3' = [s3 EXCEPT !.requests = Append(@, Request("putObject", plugin))]
                    /\ pc' = "putObject"
    /\ UNCHANGED <<bootstrap, given, service, plugin>>

\* the putObject is answered: the object is stored, or the request is rejected
putObject ==
    /\ pc = "putObject"
    /\ \E stored \in BOOLEAN :
          IF stored
          THEN /\ s3' = [s3 EXCEPT !.objects = @ \cup {UploadKey(plugin)}]
               /\ pc' = "done"
          ELSE pc' = "failed" /\ UNCHANGED s3
    /\ UNCHANGED <<bootstrap, given, service, plugin>>

PluginNext ==
    \/ createVendorZip
    \/ uploadVendorZip
    \/ uploadZipToS3
    \/ putObject

PluginSpec == PluginInit /\ [][PluginNext]_vars

(***************************************************************************)
(* Properties                                                              *)
(***************************************************************************)

\* the download-source setting is present and is not a locator of the
\* s3://<bucket>/<key> shape
MalformedLocator ==
    /\ Truthy(env.BREF_DOWNLOAD_VENDOR)
    /\ ~preg_match(env.BREF_DOWNLOAD_VENDOR.val).matched

\* the dependency tree under /tmp/vendor is whole and its static loader patched
TreeInstalled == fs.files = ArchiveEntries /\ fs.patched

\* a session token was given to the signer: a string that is not empty
TokenPresent(t) == t.set /\ t.val # <<>>

\* C1: with BREF_LOOP_MAX configured as N >= 0 the loop calls processNextEvent
\* at most N times, and a process that leaves the loop has made exactly N
\* calls and exits with status 0 (so none at all when N = 0).
C1_LoopBoundedByConfiguredMax ==
    env.BREF_LOOP_MAX.set =>
        /\ processCalls <= ParseInt(env.BREF_LOOP_MAX.val)
        /\ (pc = "terminated" /\ loops > 0 /\ exitStatus # 137) =>
               /\ exitStatus = 0
               /\ processCalls = ParseInt(env.BREF_LOOP_MAX.val)

\* C2: when resolving the handler throws, exactly one failInitialization
\* report is sent, the process has ended and processNextEvent was never called.
C2_InitFailureShortCircuits ==
    resolveThrew =>
        /\ failInits = 1
        /\ processCalls = 0
        /\ loops = 0
        /\ handler = "undefined"
        /\ pc = "terminated"

\* C2 witness: a process whose handler resolution threw and was reported
C2_Witness == resolveThrew /\ failInits = 1 /\ pc = "terminated" /\ exitStatus = 1

\* C3: with the download-source setting present and the install marker there
\* at process start, the process makes no HTTP request, extracts nothing,
\* does not touch /tmp/vendor.zip and loads only /tmp/vendor/autoload.php;
\* and once an install has completed in the container, a process that did
\* not find the marker at its start is the one that installed.
C3_InstalledSkipsFetch ==
    /\ (Branch(env) = "download" /\ markerAtStart) =>
           /\ httpRequests = 0
           /\ extractCalls = 0
           /\ zipFileOps = 0
           /\ ~url.threw /\ sigArgs = NoArgs
           /\ loaded \in {"none", "/tmp/vendor/autoload.php"}
           /\ pc \in {"select_branch", "check_installed", "require_vendor", "resolve",
                      "loop_init", "loop", "terminated"}
    /\ installDone =>
           /\ MarkerExists(fs)
           /\ ~markerAtStart => (httpRequests = 1 /\ extractCalls = 1)

\* C3 witness: a second start after a completed install has loaded the
\* installed loader without any fetch
C3_Witness ==
    /\ starts = 2
    /\ installDone
    /\ markerAtStart
    /\ Branch(env) = "download"
    /\ loaded = "/tmp/vendor/autoload.php"
    /\ httpRequests = 0

\* C4: when the downloaded archive cannot be opened the process ends there
\* with a failure status: it has loaded no autoload file, resolved no
\* handler and requested no event.
C4_OpenFailureIsFatal ==
    openFailed =>
        /\ pc = "terminated"
        /\ exitStatus = 255
        /\ loaded = "none"
        /\ handler = "undefined"
        /\ ~resolveThrew
        /\ processCalls = 0

\* C4 witness: a downloaded file that ZipArchive could not open
C4_Witness == openFailed /\ httpRequests = 1 /\ fs.zip = "unreadable"

\* C5: at the start of every bootstrap, if /tmp/vendor/autoload.php is
\* present then the dependency tree is fully extracted and the static loader
\* is patched.
C5_MarkerMeansInstalled ==
    (pc = "select_branch" /\ MarkerExists(fs)) => TreeInstalled

\* C6: a process that is past the branch selection has entered exactly one
\* dependency branch: the download branch when the download-source setting
\* is present, else the explicit-path branch when that setting is present,
\* else the default branch; what it loads and fetches belongs to that branch.
C6_OneBranchByPriority ==
    /\ Cardinality(branchesRun) <= 1
    /\ (pc # "select_branch" /\ exitStatus # 137) => Cardinality(branchesRun) = 1
    /\ Truthy(env.BREF_DOWNLOAD_VENDOR) =>
           /\ branchesRun \subseteq {"download"}
           /\ loaded \in {"none", "/tmp/vendor/autoload.php"}
    /\ (~Truthy(env.BREF_DOWNLOAD_VENDOR) /\ Truthy(env.BREF_AUTOLOAD_PATH)) =>
           /\ branchesRun \subseteq {"explicit"}
           /\ loaded \in {"none", "BREF_AUTOLOAD_PATH"}
           /\ httpRequests = 0 /\ extractCalls = 0
    /\ (~Truthy(env.BREF_DOWNLOAD_VENDOR) /\ ~Truthy(env.BREF_AUTOLOAD_PATH)) =>
           /\ branchesRun \subseteq {"default"}
           /\ loaded \in {"none", "/var/task/vendor/autoload.php"}
           /\ httpRequests = 0 /\ extractCalls = 0

\* C6 witness: both settings present, and the process has loaded the
\* installed loader of the download branch
C6_Witness ==
    /\ Truthy(env.BREF_DOWNLOAD_VENDOR)
    /\ Truthy(env.BREF_AUTOLOAD_PATH)
    /\ branchesRun = {"download"}
    /\ loaded = "/tmp/vendor/autoload.php"

\* C7: with a malformed locator the fetcher fails before any network
\* activity: no HTTP request is made and /tmp/vendor.zip is neither created
\* nor deleted.
C7_MalformedLocatorFailsFast ==
    MalformedLocator =>
        /\ httpRequests = 0
        /\ zipFileOps = 0
        /\ fs.zip = "absent"

\* C8: in every URL the signer returns, the query parameters other than the
\* signature are in ascending byte order of their names, and X-Amz-Signature
\* is the last parameter.
C8_ParamsSortedSignatureLast ==
    Signed =>
        LET names == UrlParamNames(url.url)
            n == Len(names)
        IN  /\ n >= 2
            /\ names[n] = K_Signature
            /\ \A i \in 1..(n - 1) : names[i] # K_Signature
            /\ \A i \in 1..(n - 2) : BytesLess(names[i], names[i + 1])

\* C8 witness: a returned URL with all six signed parameters and the signature
C8_Witness ==
    /\ Signed
    /\ Len(UrlParamNames(url.url)) = 7
    /\ HasParam(url.url, K_Expires)
    /\ HasParam(url.url, K_SecurityToken)

\* C9: a URL the signer returns has the X-Amz-Security-Token parameter, in
\* the canonical query string and in the URL, only if a session token was
\* given.
C9_TokenParamOnlyIfPresent ==
    Signed =>
        /\ HasParam(url.url, K_SecurityToken) => TokenPresent(sigArgs.AWSSessionToken)
        /\ HasParam(<<63>> \o url.query_string, K_SecurityToken)
               => TokenPresent(sigArgs.AWSSessionToken)

\* C10: a URL the signer returns has the X-Amz-Expires parameter exactly
\* when the validity window is > 0, once, with the window in decimal as its
\* value: none for 0 or a negative window, the literal 86400 for 86400.
C10_ExpiresIffPositive ==
    Signed =>
        /\ HasParam(url.url, K_Expires) <=> sigArgs.expires > 0
        /\ HasParam(<<63>> \o url.query_string, K_Expires) <=> sigArgs.expires > 0
        /\ sigArgs.expires = 86400 =>
               ParamValues(url.url, K_Expires) = {<<56, 54, 52, 48, 48>>}
        /\ sigArgs.expires = 3600 =>
               ParamValues(url.url, K_Expires) = {<<51, 54, 48, 48>>}
        /\ Cardinality({i \in 1..Len(UrlParamNames(url.url)) :
                           UrlParamNames(url.url)[i] = K_Expires}) <= 1

\* C10 witness: a URL signed with the window 86400 carries X-Amz-Expires=86400
C10_Witness ==
    /\ Signed
    /\ sigArgs.expires = 86400
    /\ ParamValues(url.url, K_Expires) = {<<56, 54, 52, 48, 48>>}

\* C10 witness of the other case: a URL signed with the window 0 has no
\* X-Amz-Expires parameter
C10_WitnessZero ==
    /\ Signed
    /\ sigArgs.expires = 0
    /\ ~HasParam(url.url, K_Expires)

\* the host the endpoint rule gives for a bucket in a region:
\* <bucket>.s3.amazonaws.com in us-east-1, <bucket>.s3-<region>.amazonaws.com elsewhere
EndpointHost(bucket, region) ==
    IF region = <<117, 115, 45, 101, 97, 115, 116, 45, 49>>
    THEN bucket \o <<46, 115, 51>> \o <<46, 97, 109, 97, 122, 111, 110, 97, 119, 115, 46, 99, 111, 109>>
    ELSE bucket \o <<46, 115, 51, 45>> \o region
             \o <<46, 97, 109, 97, 122, 111, 110, 97, 119, 115, 46, 99, 111, 109>>

\* the lines of the canonical request
CanonicalLines(r) == SplitOn(r.canonical_request, 10)

\* C11: the returned URL is https://<host>/..., with <host> the bucket's
\* endpoint (no regional suffix in us-east-1, s3-<region> elsewhere); the
\* signed header line of the canonical request is host:<host> with the same
\* host; and the credential scope carries the region literally, us-east-1
\* included.
C11_HostByRegion ==
    Signed =>
        LET host == EndpointHost(sigArgs.BucketName, sigArgs.AWSRegion)
        IN  /\ StartsWith(url.url, S_https \o host \o <<SLASH>>)
            /\ Head(SplitOn(Drop(url.url, Len(S_https)), SLASH)) = host
            /\ CanonicalLines(url)[4] = S_host \o <<58>> \o host
            /\ SplitOn(url.scope, SLASH)[2] = sigArgs.AWSRegion
            /\ \A v \in ParamValues(url.url, K_Credential) :
                   SplitOn(str_replace(<<PERCENT, 50, 70>>, <<SLASH>>, v), SLASH)[3]
                       = sigArgs.AWSRegion

\* C11 witness: a URL signed for us-east-1, host b.s3.amazonaws.com
C11_Witness ==
    /\ Signed
    /\ sigArgs.AWSRegion = S_us_east_1
    /\ url.hostname = <<98, 46, 115, 51, 46, 97, 109, 97, 122, 111, 110, 97, 119, 115, 46, 99, 111, 109>>
    /\ SplitOn(url.scope, SLASH)[2] = S_us_east_1

\* C11 witness of the other case: a URL signed for eu-west-1, host
\* b.s3-eu-west-1.amazonaws.com
C11_WitnessRegional ==
    /\ Signed
    /\ sigArgs.AWSRegion = S_eu_west_1
    /\ url.hostname = <<98, 46, 115, 51, 45>> \o S_eu_west_1
                          \o <<46, 97, 109, 97, 122, 111, 110, 97, 119, 115, 46, 99, 111, 109>>

\* C13: a process that has loaded /tmp/vendor/autoload.php loaded a tree
\* whose static loader was patched after the extraction had completed: the
\* static loader is there and patched, and an extraction made by the process
\* itself wrote every entry before the patch.
C13_PatchedBeforeFirstUse ==
    loaded = "/tmp/vendor/autoload.php" =>
        /\ STATIC_LOADER \in fs.files
        /\ fs.patched
        /\ extractCalls = 1 => pending = {}

\* this process has extracted every entry of the archive
ExtractionComplete == extractCalls = 1 /\ pending = {}

\* the script is past the install block of this process
PastInstall == pc \in {"require_vendor", "resolve", "loop_init", "loop"} \/ loaded # "none"

\* C14 as stated: on a successful install the archive is not removed before
\* the rewrite of the static loader: while the extracted static loader is
\* still as generated, /tmp/vendor.zip is still there.
C14_ArchiveKeptUntilRewrite ==
    (ExtractionComplete /\ ~fs.patched) => fs.zip = "archive"

\* C14 amended: on a successful install the order is extract all entries,
\* remove the archive, rewrite the static loader: the archive is removed with
\* every entry written and the static loader still as generated, the rewrite
\* happens with the archive already removed, and once the install block is
\* left the tree is complete and patched and the archive no longer exists.
C14_ExtractRemoveRewrite ==
    ExtractionComplete =>
        /\ fs.files = ArchiveEntries
        /\ pc = "unlink_zip" => (fs.zip = "archive" /\ ~fs.patched)
        /\ pc = "patch" => (fs.zip = "absent" /\ ~fs.patched)
        /\ fs.patched => fs.zip = "absent"
        /\ PastInstall => (fs.zip = "absent" /\ fs.patched)

\* a process has installed the tree and loaded it
C14_Witness ==
    /\ ExtractionComplete
    /\ loaded = "/tmp/vendor/autoload.php"
    /\ fs.zip = "absent"
    /\ TreeInstalled

\* the fetch of this process left a file that is no archive
FetchFailed == httpRequests = 1 /\ fs.zip = "unreadable"

\* C15: a process fetches at most once, and after a fetch that failed or was
\* cut short it does nothing but fail: the only step left is the open of the
\* archive, which ends the process with a fatal error; nothing is extracted,
\* no loader is loaded and no event is requested.
C15_FailedFetchIsFatalNoRetry ==
    /\ httpRequests <= 1
    /\ FetchFailed =>
          /\ pc \in {"unzip_open", "terminated"}
          /\ exitStatus \in {-1, 255, 137}
          /\ extractCalls = 0
          /\ loaded = "none"
          /\ processCalls = 0

\* the process ended on the failed fetch, with the partial file left in /tmp
C15_Witness ==
    FetchFailed /\ pc = "terminated" /\ exitStatus = 255 /\ ~MalformedLocator

\* iteration number `loops` has just ended in an invocation-level error and
\* the configured maximum is not reached
ErrorBeforeLimit ==
    /\ pc = "loop"
    /\ processCalls > 0
    /\ outcomes[processCalls] = "error"
    /\ loops < loopMax

\* C16: an invocation that ends in an error does not end the loop: every
\* call of processNextEvent has an outcome and the loop goes on; after an
\* error in iteration i < $loopMax the next step of the process requests
\* event i+1 (unless the platform kills the process); and a process that
\* entered the loop and ended by itself ended with exit(0) after exactly
\* $loopMax events, whatever their outcomes were.
C16_ErrorDoesNotEndLoop ==
    /\ [](Len(outcomes) = processCalls)
    /\ []((pc = "terminated" /\ loops > 0 /\ exitStatus # 137)
            => (exitStatus = 0 /\ processCalls = loopMax))
    /\ [][ErrorBeforeLimit =>
            (processCalls' = processCalls + 1 \/ exitStatus' = 137)]_vars

\* the first of two invocations ended in an error and the second was requested
C16_Witness ==
    /\ loopMax = 2
    /\ Len(outcomes) = 2
    /\ outcomes[1] = "error"
    /\ pc = "terminated"
    /\ exitStatus = 0

\* the process is inside the install block of the download branch, which it
\* entered because the marker was missing
InstallStep ==
    /\ branchesRun = {"download"}
    /\ ~markerAtStart
    /\ pc \in {"download_open", "download_exec", "unzip_open", "extract", "unlink_zip", "patch"}

\* C17: a process that took the explicit-path branch or the default branch,
\* or that found the marker when it started, has made no network call, has
\* not created or deleted /tmp/vendor.zip and has extracted nothing; and a
\* step changes /tmp (install directory or archive file) or makes a network
\* call only inside the install block of the download branch entered with
\* the marker missing, so never during the event loop.
C17_FrameCondition ==
    /\ []((pc # "select_branch" /\ (markerAtStart \/ "download" \notin branchesRun))
            => (httpRequests = 0 /\ zipFileOps = 0 /\ extractCalls = 0))
    /\ [][(fs' # fs \/ httpRequests' > httpRequests \/ zipFileOps' > zipFileOps)
            => InstallStep]_vars

\* a second process of the container found the marker, took the download
\* branch and ran its loop on the /tmp it was given
C17_Witness ==
    /\ starts = 2
    /\ markerAtStart
    /\ branchesRun = {"download"}
    /\ processCalls = 1
    /\ httpRequests = 0

\* a process took the explicit-path branch and ran its loop
C17_WitnessExplicit ==
    /\ branchesRun = {"explicit"}
    /\ processCalls = 1
    /\ fs = EmptyTmp

\* the day number, counted from 1970-01-01, of a civil date
DaysFromCivil(year, month, day) ==
    LET y   == IF month <= 2 THEN year - 1 ELSE year
        era == y \div 400
        yoe == y - era * 400
        mp  == IF month > 2 THEN month - 3 ELSE month + 9
        doy == ((153 * mp + 2) \div 5) + day - 1
        doe == yoe * 365 + (yoe \div 4) - (yoe \div 100) + doy
    IN  era * 146097 + doe - 719468

\* the instant a timestamp YYYYMMDD'T'HHMMSS'Z' names, in seconds since 1970
TimestampSeconds(t) ==
    DaysFromCivil(ParseInt(SubSeq(t, 1, 4)), ParseInt(SubSeq(t, 5, 6)),
                  ParseInt(SubSeq(t, 7, 8))) * SecondsPerDay
        + ParseInt(SubSeq(t, 10, 11)) * 3600 + ParseInt(SubSeq(t, 12, 13)) * 60
        + ParseInt(SubSeq(t, 14, 15))

\* the signing timestamp the URL carries in X-Amz-Date
SigningTime(u) == TimestampSeconds(CHOOSE v \in ParamValues(u, K_Date) : TRUE)

\* the validity window the URL carries in X-Amz-Expires
ValidityWindow(u) == ParseInt(CHOOSE v \in ParamValues(u, K_Expires) : TRUE)

\* C18: a URL signed with a positive validity window is inside that window
\* at the instant it is signed: the signing timestamp it carries is not
\* after the current time, and the current time is before the timestamp
\* plus the window.
C18_ValidWhenSigned ==
    (Signed /\ sigArgs.expires > 0) =>
        /\ SigningTime(url.url) <= sigArgs.now
        /\ sigArgs.now < SigningTime(url.url) + ValidityWindow(url.url)

\* the locator createVendorZip wrote, as downloadVendorArchive matches it
\* once the stack has put the bucket's name in
LocatorMatch == preg_match(FnJoin(service.BREF_DOWNLOAD_VENDOR.parts, given.bucketName))

\* the injected s3:GetObject statement covers the object of this key
CoveredByStatement(bucket, key) ==
    LET resource == FnJoin(roleDetails.Resource, bucket)
    IN  StartsWith(S_arn \o S_aws \o S_s3_arn \o bucket \o <<SLASH>> \o key,
                   SubSeq(resource, 1, Len(resource) - 1))

\* C19: every putObject of the vendor archive goes to the bucket and key that
\* the BREF_DOWNLOAD_VENDOR locator written by createVendorZip names, and
\* that key is covered by the injected s3:GetObject statement, whatever the
\* deployment prefix is.
C19_UploadKeyIsLocatorKey ==
    \A i \in 1..Len(s3.requests) :
        s3.requests[i].op = "putObject" =>
            /\ service.BREF_DOWNLOAD_VENDOR.def
            /\ LocatorMatch.matched
            /\ LocatorMatch.bucket = s3.requests[i].Bucket.val
            /\ LocatorMatch.key = s3.requests[i].Key
            /\ CoveredByStatement(given.bucketName, s3.requests[i].Key)

\* C20: with custom.separateVendor not enabled the hooks send no request to
\* S3 and leave the service as it was given: no BREF_DOWNLOAD_VENDOR, the
\* same package.exclude, the same iamRoleStatements.
C20_DisabledChangesNothing ==
    ~given.service.separateVendor =>
        (s3.requests = <<>> /\ service = given.service)

\* the positions in the request log of the requests of this operation
RequestsOf(op) == {i \in 1..Len(s3.requests) : s3.requests[i].op = op}

\* uploadZipToS3 has had the answer to its headObject
HeadAnswered == RequestsOf("headObject") # {} /\ pc # "headObject"

\* the headObject succeeded: uploadZipToS3 returned with nothing else sent
HeadSucceeded == HeadAnswered /\ pc = "done" /\ Len(s3.requests) = 1

\* the headObject failed: the catch block ran
HeadFailed == HeadAnswered /\ ~HeadSucceeded

\* C21: uploadZipToS3 sends a putObject exactly when its headObject has
\* failed, and to the key of that headObject; when the headObject finds the
\* object no putObject is sent; and a deployment sends one headObject and
\* at most one putObject.
C21_PutIffHeadFailed ==
    /\ Cardinality(RequestsOf("headObject")) <= 1
    /\ Cardinality(RequestsOf("putObject")) <= 1
    /\ \A i \in RequestsOf("putObject") :
          i = 2 /\ s3.requests[1].op = "headObject" /\ s3.requests[i].Key = s3.requests[1].Key
    /\ ~HeadAnswered => RequestsOf("putObject") = {}
    /\ HeadSucceeded => (RequestsOf("putObject") = {} /\ s3.requests[1].Key \in s3.objects)
    /\ HeadFailed => RequestsOf("putObject") # {}

=============================================================================
